---------------------------- MODULE Spec2Model ----------------------------
(***************************************************************************)
(* Model of the IDT XP clock driver (src/clk_idtxp.c): the divider solver, *)
(* the charge-pump choice, the XO table, the register bit-field codec and  *)
(* the probe / set_rate / recalc_rate handlers, over an abstract register  *)
(* port whose operations may fail.                                         *)
(*                                                                         *)
(* Numbers.  The driver computes in u8, u16, u32 and u64.  The checker's   *)
(* integers are 32-bit signed, so a u64 is kept as four 16-bit limbs       *)
(* <<l0, l1, l2, l3>> (least significant first) and the 64-bit operations  *)
(* the driver uses (multiply, shift, subtract, divide with remainder,      *)
(* compare) are defined on limbs, exact modulo 2^64.  u8, u16 and u32      *)
(* values are plain integers; every u32 the model handles is below 2^31.   *)
(***************************************************************************)
EXTENDS Integers, Sequences, FiniteSets

(***************************************************************************)
(* 64-bit unsigned arithmetic on 16-bit limbs.                             *)
(***************************************************************************)
W16 == 256 * 256
HALF16 == W16 \div 2

\* The u64 whose value is the integer n, 0 <= n < 2^31.
ToU64(n) == <<n % W16, n \div W16, 0, 0>>

Zero64 == <<0, 0, 0, 0>>

\* a < b on u64 values.
Lt64(a, b) ==
    \/ a[4] < b[4]
    \/ a[4] = b[4] /\ a[3] < b[3]
    \/ a[4] = b[4] /\ a[3] = b[3] /\ a[2] < b[2]
    \/ a[4] = b[4] /\ a[3] = b[3] /\ a[2] = b[2] /\ a[1] < b[1]

Le64(a, b) == ~Lt64(b, a)

\* (u64)a * s modulo 2^64, for a scalar 0 <= s < 2^15.
MulS(a, s) ==
    LET p0 == a[1] * s
        p1 == a[2] * s + p0 \div W16
        p2 == a[3] * s + p1 \div W16
        p3 == a[4] * s + p2 \div W16
    IN  <<p0 % W16, p1 % W16, p2 % W16, p3 % W16>>

\* a << 24 modulo 2^64: one limb up, then eight bits.
Shl24(a) == MulS(<<0, a[1], a[2], a[3]>>, 256)

\* a - b modulo 2^64 (unsigned wrap-around).
Sub64(a, b) ==
    LET d0 == a[1] - b[1]
        c0 == IF d0 < 0 THEN 1 ELSE 0
        d1 == a[2] - b[2] - c0
        c1 == IF d1 < 0 THEN 1 ELSE 0
        d2 == a[3] - b[3] - c1
        c2 == IF d2 < 0 THEN 1 ELSE 0
        d3 == a[4] - b[4] - c2
    IN  <<(d0 + W16) % W16, (d1 + W16) % W16, (d2 + W16) % W16, (d3 + W16) % W16>>

\* The sign bit of a 64-bit word read as a signed long.
IsNeg64(a) == a[4] >= HALF16

\* One 16-bit limb of a long division by p (0 < p < 2^31), most significant
\* bit first.  st = <<q, r>>: quotient bits so far and running remainder
\* r < p.  The comparison 2r + b >= p is made without forming 2r + b.
RECURSIVE DivLimb(_, _, _, _)
DivLimb(limb, n, p, st) ==
    IF n = 0 THEN st
    ELSE LET b    == limb \div HALF16
             rest == (limb % HALF16) * 2
             r    == st[2]
             t    == p - r - b
         IN  IF r >= t
             THEN DivLimb(rest, n - 1, p, <<st[1] * 2 + 1, r - t>>)
             ELSE DivLimb(rest, n - 1, p, <<st[1] * 2, r + r + b>>)

\* One limb, skipping the work when nothing has been shifted in yet.
DivStep(limb, p, r) ==
    IF limb = 0 /\ r = 0 THEN <<0, 0>> ELSE DivLimb(limb, 16, p, <<0, r>>)

\* div64_u64_rem: a / p and a % p for a u64 a and a divisor 0 < p < 2^31.
DivMod64(a, p) ==
    LET s3 == DivStep(a[4], p, 0)
        s2 == DivStep(a[3], p, s3[2])
        s1 == DivStep(a[2], p, s2[2])
        s0 == DivStep(a[1], p, s1[2])
    IN  [q |-> <<s0[1], s1[1], s2[1], s3[1]>>, r |-> s0[2]]

\* The low 16 bits and the low 32 bits of a u64 (a store to a u16 / u32).
LowU16(a) == a[1]
LowU32(a) == a[1] + W16 * a[2]

(***************************************************************************)
(* Bit operations on non-negative integers below 2^31.                     *)
(***************************************************************************)
RECURSIVE BitAnd(_, _)
BitAnd(a, b) ==
    IF a = 0 \/ b = 0 THEN 0
    ELSE (a % 2) * (b % 2) + 2 * BitAnd(a \div 2, b \div 2)

RECURSIVE BitOr(_, _)
BitOr(a, b) ==
    IF a = 0 THEN b
    ELSE IF b = 0 THEN a
    ELSE (IF a % 2 = 1 \/ b % 2 = 1 THEN 1 ELSE 0) + 2 * BitOr(a \div 2, b \div 2)

RECURSIVE Pow2(_)
Pow2(n) == IF n = 0 THEN 1 ELSE 2 * Pow2(n - 1)

\* x << n and x >> n on values that stay below 2^31.
Shl(x, n) == x * Pow2(n)
Shr(x, n) == x \div Pow2(n)

\* A store to a u8 / u16 keeps the low 8 / 16 bits.
U8(x) == x % 256
U16(x) == x % W16

(***************************************************************************)
(* Register addresses, masks and limits (lines 29-91).                     *)
(***************************************************************************)
IDTXP_REG_DIVO_7_0 == 16
IDTXP_REG_HSPI2C_CMOS == 80
IDTXP_REG_VCXO == 82
IDTXP_REG_CONTROL == 96
IDTXP_REG_FREQ_CHG == 98
NUM_FREQ_REGISTERS == 6
NUM_MISCELLANEOUS_REGISTERS == 8

IDTXP_DIVO_8_MASK == 128
IDTXP_DIVN_INT_6_0_MASK == 127
IDTXP_ICP_OFFSET_EN_MASK == 64
IDTXP_DIVN_INT_8_7_MASK == 48
IDTXP_ICP_VALUE_MASK == 14
IDTXP_PLL_MODE_MASK == 1
IDTXP_HSPI2C_EN == 16
IDTXP_CMOS_EN == 8
IDTXP_DBLR_DIS_MASK == 128
IDTXP_VDD_DEF_MASK == 96
IDTXP_VCXO_BW_MASK == 3
IDTXP_GSLOPE_MASK == 128
IDTXP_GEXP_MASK == 112
IDTXP_GSCALE_MASK == 15
IDTXP_OE_POL_EN == 128
IDTXP_DRV_TYPE == 112
IDTXP_OT_GM_MASK == 192
IDTXP_XO_CAP_MASK == 63
IDTXP_XO_AMPSLICE_MASK == 240
IDTXP_BYPASS_MASK == 8
IDTXP_CAP_X2_MASK == 7
IDTXP_OT_DIS_MASK == 128
IDTXP_OT_RES_MASK == 112
MASK_FF == 255

DIVO_MIN == 4
DIVO_MAX == 511
DIVN_MIN == 41
DIVN_MAX == 216
FVCO_MIN == MulS(MulS(ToU64(6860), 1000), 1000)
FVCO_MAX == MulS(MulS(ToU64(8650), 1000), 1000)
IDTXP_MIN_FREQ == 16000000
IDTXP_MAX_FREQ == 2100000000

\* The charge-pump breakpoints 7.0, 7.4 and 7.8 GHz of idtxp_calc_charge_pump.
ICP_BREAK_5_4 == MulS(MulS(ToU64(7000), 1000), 1000)
ICP_BREAK_4_3 == MulS(MulS(ToU64(7400), 1000), 1000)
ICP_BREAK_3_2 == MulS(MulS(ToU64(7800), 1000), 1000)

(***************************************************************************)
(* The bit-field codec (lines 204-232).                                    *)
(***************************************************************************)
\* mask &= ~mask + 1: the lowest set bit of mask, 0 for mask = 0.
RECURSIVE LowestSetBit(_)
LowestSetBit(mask) ==
    IF mask = 0 THEN 0
    ELSE IF mask % 2 = 1 THEN 1
    ELSE 2 * LowestSetBit(mask \div 2)

\* bit_to_shift: the number of zero bits to the right of mask's lowest set
\* bit: c starts at 32 and each of the six tests that passes takes its amount
\* off.
bit_to_shift(mask) ==
    32 - (IF LowestSetBit(mask) # 0 THEN 1 ELSE 0)
       - (IF BitAnd(LowestSetBit(mask), 65535) # 0 THEN 16 ELSE 0)
       - (IF BitAnd(LowestSetBit(mask), 16711935) # 0 THEN 8 ELSE 0)
       - (IF BitAnd(LowestSetBit(mask), 252645135) # 0 THEN 4 ELSE 0)
       - (IF BitAnd(LowestSetBit(mask), 858993459) # 0 THEN 2 ELSE 0)
       - (IF BitAnd(LowestSetBit(mask), 1431655765) # 0 THEN 1 ELSE 0)

\* The field added to the byte that is there instead of replacing it: what
\* C14's formula must tell from set_to_reg.
set_to_reg_adds(reg, val, mask) == U8(reg + Shl(val, bit_to_shift(mask)))

\* set_to_reg: *reg = ((*reg) & ~mask) | (val << bit_to_shift(mask)), stored
\* to a u8.  val is not masked before it is shifted in.
set_to_reg(reg, val, mask) ==
    U8(BitOr(reg - BitAnd(reg, mask), Shl(val, bit_to_shift(mask))))

\* get_from_reg: *val = (reg & mask) >> bit_to_shift(mask).
get_from_reg(reg, mask) == U8(Shr(BitAnd(reg, mask), bit_to_shift(mask)))

\* Return values: 0, -EINVAL, and the register port's error.
EINVAL == -22
EIO == -5

(***************************************************************************)
(* The driver's per-device structure, struct clk_idtxp (lines 161-191),    *)
(* as devm_kzalloc leaves it: every field zero.  bool fields hold 0 or 1.  *)
(***************************************************************************)
ZeroXo ==
    [hsp_i2c_en |-> 0, cmos_en |-> 0, dblr_dis |-> 0, vdd_def |-> 0,
     vcxo_bw |-> 0, vcxo_gslope |-> 0, vcxo_gexp |-> 0, vcxo_gscale |-> 0,
     oe_pol_en |-> 0, drv_type |-> 0, gm |-> 0, cap_x1 |-> 0, ampslice |-> 0,
     bypass |-> 0, cap_x2 |-> 0, ot_dis |-> 0, ot_res |-> 0]

ZeroData ==
    [min_freq |-> 0, max_freq |-> 0, xo |-> ZeroXo, fxtal |-> 0,
     fvco |-> Zero64, divo |-> 0, divnint |-> 0, divnfrac |-> 0,
     req_freq |-> 0, act_freq |-> 0, icp_offst_en |-> 0, icp_value |-> 0,
     pll_mode |-> 0, divo_8 |-> 0, divnint_8_7 |-> 0, divnfrac_15_8 |-> 0,
     divnfrac_23_16 |-> 0]

\* update_divis_regs (lines 241-247).  divnint_8_7 is taken from divo, with
\* the mask 0x2 << 7, exactly as the source has it.
update_divis_regs(d) ==
    [d EXCEPT
       !.divo_8 = U8(Shr(BitAnd(d.divo, Shl(1, 8)), 8)),
       !.divnint_8_7 = U8(Shr(BitAnd(d.divo, Shl(2, 7)), 7)),
       !.divnfrac_15_8 = U8(Shr(BitAnd(d.divnfrac, Shl(255, 8)), 8)),
       !.divnfrac_23_16 = U8(Shr(BitAnd(d.divnfrac, Shl(255, 16)), 16))]

(***************************************************************************)
(* idtxp_calc_divs (lines 368-462).                                        *)
(***************************************************************************)
\* pfd = fxtal * (dblr_dis ? 1 : 2), line 382.
PfdOf(d) == d.fxtal * (IF d.xo.dblr_dis # 0 THEN 1 ELSE 2)

\* The first guess without the 1 added to the quotient: what C7's formula
\* must tell from InitialDivo.
InitialDivoFloor(req_freq) == U16(LowU16(DivMod64(FVCO_MIN, req_freq).q))

\* The first guess of the output divider, lines 384 and 421, stored to a u16.
InitialDivo(req_freq) == U16(1 + LowU16(DivMod64(FVCO_MIN, req_freq).q))

\* How a pass of the while loop ends once divnint = fvco / pfd and the
\* remainder are known (lines 400-407).  "next" is the divo++ of line 408,
\* "spin" the `continue' of line 401, which changes nothing before the
\* condition is evaluated again.
PassEnd(qr) ==
    IF LowU16(qr.q) < DIVN_MIN THEN "spin"
    ELSE IF LowU16(qr.q) > DIVN_MAX THEN "divn_high"
    ELSE IF qr.r = 0 THEN "is_int"
    ELSE "next"

\* A pass whose fvco = req_freq * divo is known (lines 392-407).
PassOn(fvco, pfd) ==
    IF Lt64(FVCO_MAX, fvco) THEN "vco_high" ELSE PassEnd(DivMod64(fvco, pfd))

\* One pass of the while loop of lines 385-409 at output divider k.
PassAt(req_freq, pfd, k) == PassOn(MulS(ToU64(req_freq), k), pfd)

\* The least element of a non-empty set of integers.
MinOf(S) == CHOOSE k \in S : \A j \in S : k <= j

\* The first divider in lo..hi at which a pass does not end in divo++, or
\* hi + 1 when every pass does.  The passes are examined eight at a time:
\* S holds the dividers of lo..top that stop the loop.
RECURSIVE FirstStop(_, _, _, _)
StopOrOn(S, req_freq, pfd, top, hi) ==
    IF S # {} THEN MinOf(S) ELSE FirstStop(req_freq, pfd, top + 1, hi)

StopUpTo(req_freq, pfd, lo, top, hi) ==
    StopOrOn({k \in lo..top : PassAt(req_freq, pfd, k) # "next"},
             req_freq, pfd, top, hi)

FirstStop(req_freq, pfd, lo, hi) ==
    IF lo > hi THEN hi + 1
    ELSE StopUpTo(req_freq, pfd, lo, IF lo + 7 < hi THEN lo + 7 ELSE hi, hi)

\* What the while loop leaves when its last pass was at divider last and
\* ended as how, and the last pass to reach line 394 was at divider at
\* (at < first: no pass did).  k is the value left in divo.
SearchResult(req_freq, pfd, first, k, last, how, at) ==
    [divo |-> k, fvco |-> MulS(ToU64(req_freq), last), fvco_set |-> TRUE,
     divnint |-> IF at >= first
                 THEN LowU16(DivMod64(MulS(ToU64(req_freq), at), pfd).q)
                 ELSE 0,
     divnint_set |-> at >= first,
     is_int |-> how = "is_int", spin |-> how = "spin"]

SearchLast(req_freq, pfd, first, k, last, how) ==
    SearchResult(req_freq, pfd, first, k, last, how,
                 IF how # "vco_high" THEN last ELSE last - 1)

\* The loop stopped at divider k < DIVO_MAX, or ran out at k = DIVO_MAX.
SearchEnd(req_freq, pfd, first, k) ==
    IF k < DIVO_MAX
    THEN SearchLast(req_freq, pfd, first, k, k, PassAt(req_freq, pfd, k))
    ELSE SearchLast(req_freq, pfd, first, k, DIVO_MAX - 1, "next")

SearchFrom(req_freq, pfd, first) ==
    IF ~(first < DIVO_MAX)
    THEN [divo |-> first, fvco |-> Zero64, fvco_set |-> FALSE,
          divnint |-> 0, divnint_set |-> FALSE,
          is_int |-> FALSE, spin |-> FALSE]
    ELSE SearchEnd(req_freq, pfd, first,
                   FirstStop(req_freq, pfd, first, DIVO_MAX - 1))

\* The while loop of lines 385-409 for a requested frequency and a PFD
\* frequency: what the loop leaves in divo, fvco and divnint, with is_int, and
\* spin = TRUE when the loop never ends.  divo is the divider of the last
\* pass; fvco was assigned in that pass, divnint in the last pass that reached
\* line 394.  fvco_set / divnint_set tell whether the loop assigned the field
\* at all (it does not when it is not entered, or leaves in its first pass at
\* line 393).
DivoSearch(req_freq, pfd) == SearchFrom(req_freq, pfd, InitialDivo(req_freq))

\* The fractional path, lines 419-441, step by step.  Lines 436-440: the
\* carry of the fraction into divnint; divnfrac is at most 2^24 here, so the
\* u32 product divnfrac * 10 does not wrap.
FracCarry(divo, fvco, nint, frac) ==
    [divo |-> divo, fvco |-> fvco,
     divnint |-> IF Shr(frac * 10, 24) >= 5 THEN U16(nint + 1) ELSE nint,
     divnfrac |-> frac]

\* Lines 427-434: divnfrac = (rem << 24) / pfd, rounded up when the first
\* decimal of what is left is 5 or more.
FracRound(divo, fvco, nint, fr, pfd) ==
    FracCarry(divo, fvco, nint,
              IF Le64(ToU64(5), DivMod64(MulS(ToU64(fr.r), 10), pfd).q)
              THEN LowU32(fr.q) + 1 ELSE LowU32(fr.q))

\* Lines 423-426: divnint and the remainder of fvco / pfd.
FracDivn(divo, fvco, qr, pfd) ==
    FracRound(divo, fvco, LowU16(qr.q),
              DivMod64(Shl24(ToU64(qr.r)), pfd), pfd)

\* Line 422: fvco at the first guess of the divider.
FracFvco(divo, fvco, pfd) == FracDivn(divo, fvco, DivMod64(fvco, pfd), pfd)

FracAt(req_freq, pfd, divo) ==
    FracFvco(divo, MulS(ToU64(req_freq), divo), pfd)

\* The fractional path run at the divider the loop stopped at: what C16's
\* formula must tell from FracPath.
FracPathAtSearch(req_freq, pfd) ==
    FracAt(req_freq, pfd, DivoSearch(req_freq, pfd).divo)

\* The fractional path: the values it assigns to divo, fvco, divnint and
\* divnfrac.
FracPath(req_freq, pfd) == FracAt(req_freq, pfd, InitialDivo(req_freq))

\* Line 419: the loop's result s stands when it found an integer solution
\* (or never ends); otherwise the fractional path's result f replaces it.
SolveWith(s, f) ==
    IF s.spin \/ s.is_int
    THEN [divo |-> s.divo, fvco |-> s.fvco, divnint |-> s.divnint,
          divnfrac |-> 0, path |-> "int", spin |-> s.spin]
    ELSE [divo |-> f.divo, fvco |-> f.fvco, divnint |-> f.divnint,
          divnfrac |-> f.divnfrac, path |-> "frac", spin |-> FALSE]

\* Lines 381-441 as a function of the requested frequency and the PFD
\* frequency: the values left in divo, fvco, divnint and divnfrac, path =
\* "int" or "frac" for the branch taken at line 419, and spin.  Every one of
\* the four fields is assigned on every path that ends, and on the path that
\* spins when it spins in a pass that reached line 400.
SolveDivs(req_freq, pfd) ==
    SolveWith(DivoSearch(req_freq, pfd), FracPath(req_freq, pfd))

\* The inputs of the model.  Rates asked of set_rate: the two nearest values
\* outside the range, the ends of the range, values on either side of the
\* 0.05 % threshold around 100 MHz, 1 GHz, and SweepPoints + 1 values spread
\* evenly over the range.
SweepPoints == 2
SweepRates ==
    {IDTXP_MIN_FREQ + k * ((IDTXP_MAX_FREQ - IDTXP_MIN_FREQ) \div SweepPoints) :
        k \in 0..SweepPoints}
Rates ==
    {IDTXP_MIN_FREQ - 1, IDTXP_MAX_FREQ + 1, IDTXP_MIN_FREQ, IDTXP_MAX_FREQ,
     99949999, 99950001, 100000000, 100049999, 100050001, 1000000000}
    \cup SweepRates

\* Crystal frequencies (factory-fout): one in each band of
\* idtxp_calc_xo_settings, the upper end of the last band, and one below and
\* one above all bands.
Xtals == {50000000, 137254902, 166000000, 10000000, 170000000}

\* SolveDivs on the model's inputs, computed once.
SolvedInputs == {r \in Rates : IDTXP_MIN_FREQ <= r /\ r <= IDTXP_MAX_FREQ}
                \X {x * m : x \in Xtals, m \in {1, 2}}
Solved == {<<in, SolveDivs(in[1], in[2])>> : in \in SolvedInputs}

\* Storing a solution r into the structure, and line 443's update_divis_regs
\* when the function gets that far.
StoreDivs(d, r) ==
    [d EXCEPT !.divo = r.divo, !.fvco = r.fvco,
              !.divnint = r.divnint, !.divnfrac = r.divnfrac]

DivsDone(d1, spin) ==
    [data |-> IF spin THEN d1 ELSE update_divis_regs(d1), spin |-> spin]

SolutionFor(in) ==
    IF in \in SolvedInputs THEN (CHOOSE p \in Solved : p[1] = in)[2]
    ELSE SolveDivs(in[1], in[2])

CalcDivsWith(d, r) == DivsDone(StoreDivs(d, r), r.spin)

\* The whole function: [data, spin].  It has no error return (line 461).
idtxp_calc_divs(d) == CalcDivsWith(d, SolutionFor(<<d.req_freq, PfdOf(d)>>))

\* Each breakpoint taken into the range below it: what C15's formula must
\* tell from idtxp_calc_charge_pump.
idtxp_calc_charge_pump_low(d) ==
    [d EXCEPT !.icp_value =
        IF Le64(d.fvco, ICP_BREAK_5_4) THEN 5
        ELSE IF Le64(d.fvco, ICP_BREAK_4_3) THEN 4
        ELSE IF Le64(d.fvco, ICP_BREAK_3_2) THEN 3
        ELSE 2]

\* idtxp_calc_charge_pump (lines 472-493).
idtxp_calc_charge_pump(d) ==
    [d EXCEPT !.icp_value =
        IF Lt64(d.fvco, ICP_BREAK_5_4) THEN 5
        ELSE IF Le64(ICP_BREAK_5_4, d.fvco) /\ Lt64(d.fvco, ICP_BREAK_4_3) THEN 4
        ELSE IF Le64(ICP_BREAK_4_3, d.fvco) /\ Lt64(d.fvco, ICP_BREAK_3_2) THEN 3
        ELSE 2]

\* The XO table with the doubler left on in the band from 140 MHz: what C17's
\* formula must tell from idtxp_calc_xo_settings.
idtxp_calc_xo_settings_doubled(d) ==
    IF 40000000 <= d.fxtal /\ d.fxtal <= 80000000
    THEN [data |-> [d EXCEPT !.xo.dblr_dis = 0, !.xo.gm = 2, !.xo.cap_x1 = 60,
                             !.xo.ampslice = 1, !.xo.cap_x2 = 2,
                             !.xo.ot_dis = 1, !.xo.ot_res = 0],
          err |-> 0]
    ELSE IF 100000000 <= d.fxtal /\ d.fxtal < 140000000
    THEN [data |-> [d EXCEPT !.xo.dblr_dis = 1, !.xo.gm = 2, !.xo.cap_x1 = 21,
                             !.xo.ampslice = 12, !.xo.cap_x2 = 5,
                             !.xo.ot_dis = 0, !.xo.ot_res = 5],
          err |-> 0]
    ELSE IF 140000000 <= d.fxtal /\ d.fxtal <= 166000000
    THEN [data |-> [d EXCEPT !.xo.dblr_dis = 0, !.xo.gm = 3, !.xo.cap_x1 = 21,
                             !.xo.ampslice = 12, !.xo.cap_x2 = 5,
                             !.xo.ot_dis = 0, !.xo.ot_res = 3],
          err |-> 0]
    ELSE [data |-> d, err |-> EINVAL]

\* idtxp_calc_xo_settings (lines 502-537): [data, err].
idtxp_calc_xo_settings(d) ==
    IF 40000000 <= d.fxtal /\ d.fxtal <= 80000000
    THEN [data |-> [d EXCEPT !.xo.dblr_dis = 0, !.xo.gm = 2, !.xo.cap_x1 = 60,
                             !.xo.ampslice = 1, !.xo.cap_x2 = 2,
                             !.xo.ot_dis = 1, !.xo.ot_res = 0],
          err |-> 0]
    ELSE IF 100000000 <= d.fxtal /\ d.fxtal < 140000000
    THEN [data |-> [d EXCEPT !.xo.dblr_dis = 1, !.xo.gm = 2, !.xo.cap_x1 = 21,
                             !.xo.ampslice = 12, !.xo.cap_x2 = 5,
                             !.xo.ot_dis = 0, !.xo.ot_res = 5],
          err |-> 0]
    ELSE IF 140000000 <= d.fxtal /\ d.fxtal <= 166000000
    THEN [data |-> [d EXCEPT !.xo.dblr_dis = 1, !.xo.gm = 3, !.xo.cap_x1 = 21,
                             !.xo.ampslice = 12, !.xo.cap_x2 = 5,
                             !.xo.ot_dis = 0, !.xo.ot_res = 3],
          err |-> 0]
    ELSE [data |-> d, err |-> EINVAL]

(***************************************************************************)
(* The register port (regmap over I2C).  A handler call threads a context  *)
(* cx = [chip, trace, fail, junk]: the device's registers, the operations  *)
(* issued so far in this call, the position in the call's operations of    *)
(* the one that fails (0: none fails), and the byte an unfilled buffer     *)
(* holds.  A read that succeeds returns the device's registers; an         *)
(* operation that fails transfers nothing.                                 *)
(***************************************************************************)
ChipRegs == (IDTXP_REG_DIVO_7_0 .. IDTXP_REG_DIVO_7_0 + NUM_FREQ_REGISTERS - 1)
            \cup (IDTXP_REG_HSPI2C_CMOS ..
                  IDTXP_REG_HSPI2C_CMOS + NUM_MISCELLANEOUS_REGISTERS - 1)

PortOk(cx) == Len(cx.trace) + 1 # cx.fail

Logged(cx, op, reg, vals, ok) ==
    [cx EXCEPT !.trace = Append(@, [op |-> op, reg |-> reg, vals |-> vals,
                                    ok |-> ok])]

Stored(chip, reg, vals) ==
    [a \in DOMAIN chip |->
        IF a >= reg /\ a < reg + Len(vals) THEN vals[a - reg + 1] ELSE chip[a]]

\* regmap_bulk_read into a local buffer the caller did not initialise: on
\* failure the buffer keeps whatever the stack held.
regmap_bulk_read(cx, reg, n) ==
    LET ok == PortOk(cx)
    IN  [cx  |-> Logged(cx, "bulk_read", reg, <<n>>, ok),
         err |-> IF ok THEN 0 ELSE EIO,
         buf |-> IF ok THEN [i \in 1..n |-> cx.chip[reg + i - 1]]
                       ELSE [i \in 1..n |-> cx.junk]]

regmap_write(cx, reg, val) ==
    LET ok == PortOk(cx)
        c1 == IF ok /\ reg \in DOMAIN cx.chip
              THEN [cx EXCEPT !.chip = Stored(@, reg, <<val>>)] ELSE cx
    IN  [cx |-> Logged(c1, "write", reg, <<val>>, ok),
         err |-> IF ok THEN 0 ELSE EIO]

regmap_multi_reg_write(cx, reg, vals) ==
    LET ok == PortOk(cx)
        c1 == IF ok THEN [cx EXCEPT !.chip = Stored(@, reg, vals)] ELSE cx
    IN  [cx |-> Logged(c1, "multi_write", reg, vals, ok),
         err |-> IF ok THEN 0 ELSE EIO]

\* A store through (u8 *) into a wider field: on the little-endian build
\* modelled here it replaces the field's low byte and keeps the rest.
StoreLowByte(field, byte) == field - (field % 256) + byte

(***************************************************************************)
(* Reading the defaults (lines 256-359).                                   *)
(***************************************************************************)
\* The unpacking of eight register bytes into the xo fields, lines 267-292.
UnpackXo(xo, reg) ==
    [xo EXCEPT
       !.hsp_i2c_en = get_from_reg(reg[1], IDTXP_HSPI2C_EN),
       !.cmos_en = get_from_reg(reg[1], IDTXP_CMOS_EN),
       !.dblr_dis = get_from_reg(reg[2], IDTXP_DBLR_DIS_MASK),
       !.vdd_def = get_from_reg(reg[2], IDTXP_VDD_DEF_MASK),
       !.vcxo_bw = get_from_reg(reg[2], IDTXP_VCXO_BW_MASK),
       !.vcxo_gslope = get_from_reg(reg[3], IDTXP_GSLOPE_MASK),
       !.vcxo_gexp = get_from_reg(reg[3], IDTXP_GEXP_MASK),
       !.vcxo_gscale = get_from_reg(reg[3], IDTXP_GSCALE_MASK),
       !.oe_pol_en = get_from_reg(reg[4], IDTXP_OE_POL_EN),
       !.drv_type = get_from_reg(reg[4], IDTXP_DRV_TYPE),
       !.gm = get_from_reg(reg[6], IDTXP_OT_GM_MASK),
       !.cap_x1 = get_from_reg(reg[6], IDTXP_XO_CAP_MASK),
       !.ampslice = get_from_reg(reg[7], IDTXP_XO_AMPSLICE_MASK),
       !.bypass = get_from_reg(reg[7], IDTXP_BYPASS_MASK),
       !.cap_x2 = get_from_reg(reg[7], IDTXP_CAP_X2_MASK),
       !.ot_dis = get_from_reg(reg[8], IDTXP_OT_DIS_MASK),
       !.ot_res = get_from_reg(reg[8], IDTXP_OT_RES_MASK)]

\* A reader once its bulk read rd has returned: the error is passed on, or
\* the bytes are unpacked.
XoRead(d, rd) ==
    IF rd.err # 0 THEN [data |-> d, cx |-> rd.cx, err |-> rd.err]
    ELSE [data |-> [d EXCEPT !.xo = UnpackXo(@, rd.buf)], cx |-> rd.cx,
          err |-> 0]

\* idtxp_get_xo_settings (lines 256-295).
idtxp_get_xo_settings(d, cx) ==
    XoRead(d, regmap_bulk_read(cx, IDTXP_REG_HSPI2C_CMOS,
                               NUM_MISCELLANEOUS_REGISTERS))

\* The bit fields of six register bytes, stored field by field, lines
\* 315-325.
SplitDivs(d, reg) ==
    [d EXCEPT
       !.divo = StoreLowByte(@, get_from_reg(reg[1], MASK_FF)),
       !.divo_8 = get_from_reg(reg[2], IDTXP_DIVO_8_MASK),
       !.divnint = StoreLowByte(@, get_from_reg(reg[2],
                                                IDTXP_DIVN_INT_6_0_MASK)),
       !.icp_offst_en = get_from_reg(reg[3], IDTXP_ICP_OFFSET_EN_MASK),
       !.divnint_8_7 = get_from_reg(reg[3], IDTXP_DIVN_INT_8_7_MASK),
       !.icp_value = get_from_reg(reg[3], IDTXP_ICP_VALUE_MASK),
       !.pll_mode = get_from_reg(reg[3], IDTXP_PLL_MODE_MASK),
       !.divnfrac = StoreLowByte(@, get_from_reg(reg[4], MASK_FF)),
       !.divnfrac_15_8 = get_from_reg(reg[5], MASK_FF),
       !.divnfrac_23_16 = get_from_reg(reg[6], MASK_FF)]

\* The high parts ORed into the dividers, lines 327-331.
JoinDivs(d) ==
    [d EXCEPT
       !.divo = U16(BitOr(@, Shl(d.divo_8, 8))),
       !.divnint = U16(BitOr(@, d.divnint_8_7)),
       !.divnfrac = BitOr(@, BitOr(Shl(d.divnfrac_15_8, 8),
                                   Shl(d.divnfrac_23_16, 16)))]

\* The unpacking of six register bytes into the structure d, lines 315-331.
UnpackDivs(d, reg) == JoinDivs(SplitDivs(d, reg))

DivsRead(d, rd) ==
    IF rd.err # 0 THEN [data |-> d, cx |-> rd.cx, err |-> rd.err]
    ELSE [data |-> UnpackDivs(d, rd.buf), cx |-> rd.cx, err |-> 0]

\* idtxp_get_divs_and_icp (lines 304-337).
idtxp_get_divs_and_icp(d, cx) ==
    DivsRead(d, regmap_bulk_read(cx, IDTXP_REG_DIVO_7_0, NUM_FREQ_REGISTERS))

DefaultsAfter(a) ==
    IF a.err # 0 THEN a ELSE idtxp_get_xo_settings(a.data, a.cx)

\* idtxp_get_defaults (lines 346-359).
idtxp_get_defaults(d, cx) == DefaultsAfter(idtxp_get_divs_and_icp(d, cx))

(***************************************************************************)
(* Writing the settings (lines 546-669).                                   *)
(***************************************************************************)
\* The six bytes idtxp_write_divs_settings builds from the bytes read, lines
\* 588-597.  d has been through update_divis_regs.
PackDivs(d, reg) ==
    <<set_to_reg(reg[1], U8(d.divo), MASK_FF),
      set_to_reg(set_to_reg(reg[2], d.divo_8, IDTXP_DIVO_8_MASK),
                 U8(d.divnint), IDTXP_DIVN_INT_6_0_MASK),
      set_to_reg(
        set_to_reg(
          set_to_reg(
            set_to_reg(reg[3], d.icp_offst_en, IDTXP_ICP_OFFSET_EN_MASK),
            d.divnint_8_7, IDTXP_DIVN_INT_8_7_MASK),
          d.icp_value, IDTXP_ICP_VALUE_MASK),
        d.pll_mode, IDTXP_PLL_MODE_MASK),
      set_to_reg(reg[4], U8(d.divnfrac), MASK_FF),
      set_to_reg(reg[5], d.divnfrac_15_8, MASK_FF),
      set_to_reg(reg[6], d.divnfrac_23_16, MASK_FF)>>

\* A writer once its bulk read rd has returned: the bytes vals are written
\* whatever the read returned, and the write's result is the function's.
Written(d, wr) == [data |-> d, cx |-> wr.cx, err |-> wr.err]

DivsWrite(d1, rd) ==
    Written(d1, regmap_multi_reg_write(rd.cx, IDTXP_REG_DIVO_7_0,
                                       PackDivs(d1, rd.buf)))

\* idtxp_write_divs_settings (lines 576-614).  The result of the read is
\* overwritten at line 607 without having been looked at.
idtxp_write_divs_settings(d, cx) ==
    DivsWrite(update_divis_regs(d),
              regmap_bulk_read(cx, IDTXP_REG_DIVO_7_0, NUM_FREQ_REGISTERS))

\* The eight bytes idtxp_write_xo_settings builds, lines 633-649.
PackXo(xo, reg) ==
    <<set_to_reg(set_to_reg(reg[1], xo.hsp_i2c_en, IDTXP_HSPI2C_EN),
                 xo.cmos_en, IDTXP_CMOS_EN),
      set_to_reg(set_to_reg(set_to_reg(reg[2], xo.dblr_dis, IDTXP_DBLR_DIS_MASK),
                            xo.vdd_def, IDTXP_VDD_DEF_MASK),
                 xo.vcxo_bw, IDTXP_VCXO_BW_MASK),
      set_to_reg(set_to_reg(set_to_reg(reg[3], xo.vcxo_gslope, IDTXP_GSLOPE_MASK),
                            xo.vcxo_gexp, IDTXP_GEXP_MASK),
                 xo.vcxo_gscale, IDTXP_GSCALE_MASK),
      set_to_reg(set_to_reg(reg[4], xo.oe_pol_en, IDTXP_OE_POL_EN),
                 xo.drv_type, IDTXP_DRV_TYPE),
      reg[5],
      set_to_reg(set_to_reg(reg[6], xo.gm, IDTXP_OT_GM_MASK),
                 xo.cap_x1, IDTXP_XO_CAP_MASK),
      set_to_reg(set_to_reg(set_to_reg(reg[7], xo.ampslice, IDTXP_XO_AMPSLICE_MASK),
                            xo.bypass, IDTXP_BYPASS_MASK),
                 xo.cap_x2, IDTXP_CAP_X2_MASK),
      set_to_reg(set_to_reg(reg[8], xo.ot_dis, IDTXP_OT_DIS_MASK),
                 xo.ot_res, IDTXP_OT_RES_MASK)>>

XoWrite(d, rd) ==
    Written(d, regmap_multi_reg_write(rd.cx, IDTXP_REG_HSPI2C_CMOS,
                                      PackXo(d.xo, rd.buf)))

\* idtxp_write_xo_settings (lines 623-669).
idtxp_write_xo_settings(d, cx) ==
    XoWrite(d, regmap_bulk_read(cx, IDTXP_REG_HSPI2C_CMOS,
                                NUM_MISCELLANEOUS_REGISTERS))

\* Writes of vals, one after the other, to the register reg, given up at the
\* first that fails.  w is the result of the write before.
RECURSIVE WriteEach(_, _, _)
WriteEach(w, reg, vals) ==
    IF vals = <<>> \/ w.err # 0 THEN w
    ELSE WriteEach(regmap_write(w.cx, reg, Head(vals)), reg, Tail(vals))

\* The five writes with 0x20 and 0x01 the other way round: what C3's formula
\* must tell from idtxp_setup.
idtxp_setup_swapped(cx) ==
    WriteEach([cx |-> cx, err |-> 0], IDTXP_REG_CONTROL, <<0, 1, 0, 32, 0>>)

\* idtxp_setup (lines 546-567): five writes to the control register.
idtxp_setup(cx) ==
    WriteEach([cx |-> cx, err |-> 0], IDTXP_REG_CONTROL, <<0, 32, 0, 1, 0>>)

(***************************************************************************)
(* The clock operations (lines 701-834).  Each returns [data, cx, err,     *)
(* spin]; spin = TRUE when the call never returns.                         *)
(***************************************************************************)
\* idtxp_recalc_rate (lines 701-707).
idtxp_recalc_rate(d) == d.req_freq

\* The trigger written and the actual frequency left as it was: what C13's
\* formula must tell from Triggered.
TriggeredKeepsActual(d, cx, trigger) ==
    [data |-> d,
     cx |-> regmap_write(regmap_write(cx, IDTXP_REG_FREQ_CHG, trigger).cx,
                         IDTXP_REG_FREQ_CHG, 0).cx,
     err |-> 0, spin |-> FALSE]

\* The two writes to IDTXP_REG_FREQ_CHG, whose results are not looked at
\* (lines 756-757 and 797-798), and the new actual frequency.
Triggered(d, cx, trigger) ==
    [data |-> [d EXCEPT !.act_freq = d.req_freq],
     cx |-> regmap_write(regmap_write(cx, IDTXP_REG_FREQ_CHG, trigger).cx,
                         IDTXP_REG_FREQ_CHG, 0).cx,
     err |-> 0, spin |-> FALSE]

\* After idtxp_setup has returned s.
ChangeAfterSetup(d, s, trigger) ==
    IF s.err # 0 THEN [data |-> d, cx |-> s.cx, err |-> s.err, spin |-> FALSE]
    ELSE Triggered(d, s.cx, trigger)

\* After idtxp_write_divs_settings has returned w.
ChangeAfterWrite(w, trigger) ==
    IF w.err # 0
    THEN [data |-> w.data, cx |-> w.cx, err |-> w.err, spin |-> FALSE]
    ELSE ChangeAfterSetup(w.data, idtxp_setup(w.cx), trigger)

\* After idtxp_calc_divs has returned c, if it returns.
ChangeAfterCalc(c, cx, trigger) ==
    IF c.spin THEN [data |-> c.data, cx |-> cx, err |-> 0, spin |-> TRUE]
    ELSE ChangeAfterWrite(
             idtxp_write_divs_settings(idtxp_calc_charge_pump(c.data), cx),
             trigger)

\* The body the two frequency-change functions share, up to the trigger
\* value written to IDTXP_REG_FREQ_CHG.
FrequencyChange(d, cx, trigger) ==
    ChangeAfterCalc(idtxp_calc_divs(d), cx, trigger)

\* idtxp_large_frequency_change (lines 731-762).
idtxp_large_frequency_change(d, cx) == FrequencyChange(d, cx, 1)

\* idtxp_small_frequency_change (lines 772-803).
idtxp_small_frequency_change(d, cx) == FrequencyChange(d, cx, 2)

\* No abs() at all, the difference staying the unsigned word it is: what
\* C4's formula must tell from AbsLong.
AbsLongUnsigned(x) == x

\* abs() of the kernel on an unsigned long: the word is read as a signed
\* long and negated when negative.
AbsLong(x) == IF IsNeg64(x) THEN Sub64(Zero64, x) ELSE x

\* The test of lines 829-830: abs(rate - act_freq) * 10000 / act_freq < 5.
IsSmallChange(rate, act_freq) ==
    Lt64(DivMod64(MulS(AbsLong(Sub64(ToU64(rate), ToU64(act_freq))), 10000),
                  act_freq).q,
         ToU64(5))

\* Lines 829-833: the choice between the two changes, req_freq being set.
ChangeRate(d, cx) ==
    IF IsSmallChange(d.req_freq, d.act_freq)
    THEN idtxp_small_frequency_change(d, cx)
    ELSE idtxp_large_frequency_change(d, cx)

\* set_rate storing the requested frequency before it looks at the range:
\* what C2's formula must tell from idtxp_set_rate.
idtxp_set_rate_stores_first(d, cx, rate) ==
    IF rate < d.min_freq \/ rate > d.max_freq
    THEN [data |-> [d EXCEPT !.req_freq = rate], cx |-> cx, err |-> EINVAL,
          spin |-> FALSE]
    ELSE ChangeRate([d EXCEPT !.req_freq = rate], cx)

\* set_rate without the test of the range: what C12's formula must tell from
\* idtxp_set_rate.
idtxp_set_rate_unchecked(d, cx, rate) ==
    ChangeRate([d EXCEPT !.req_freq = rate], cx)

\* idtxp_set_rate (lines 813-834).
idtxp_set_rate(d, cx, rate) ==
    IF rate < d.min_freq \/ rate > d.max_freq
    THEN [data |-> d, cx |-> cx, err |-> EINVAL, spin |-> FALSE]
    ELSE ChangeRate([d EXCEPT !.req_freq = rate], cx)

(***************************************************************************)
(* idtxp_probe (lines 1006-1157), for a device tree that gives factory-fout *)
(* and, optionally, clock-frequency (0 stands for the property being       *)
(* absent), and no settings array and no power-supply-voltage.             *)
(* clk_set_rate is taken to call the clock's set_rate operation and to     *)
(* return its result.                                                      *)
(***************************************************************************)
\* Lines 1134-1144: clock-frequency, when present, is read into req_freq and
\* set.  w is what idtxp_write_xo_settings returned.
ProbeRate(w, board) ==
    IF board.clock_frequency # 0
    THEN idtxp_set_rate([w.data EXCEPT !.req_freq = board.clock_frequency],
                        w.cx, board.clock_frequency)
    ELSE [data |-> w.data, cx |-> w.cx, err |-> 0, spin |-> FALSE]

\* Lines 1092-1132: the second idtxp_get_defaults has returned g2; the XO
\* settings are computed and written, neither result being looked at.
ProbeAfterReread(g2, board) ==
    IF g2.err # 0
    THEN [data |-> g2.data, cx |-> g2.cx, err |-> g2.err, spin |-> FALSE]
    ELSE ProbeRate(idtxp_write_xo_settings(idtxp_calc_xo_settings(g2.data).data,
                                           g2.cx),
                   board)

\* Lines 1071-1092: the first idtxp_get_defaults has returned g1; the two
\* writes of lines 1088-1089 are not checked.
ProbeAfterRead(g1, board) ==
    IF g1.err # 0
    THEN [data |-> g1.data, cx |-> g1.cx, err |-> g1.err, spin |-> FALSE]
    ELSE ProbeAfterReread(
             idtxp_get_defaults(
                 g1.data,
                 regmap_write(regmap_write(g1.cx, IDTXP_REG_HSPI2C_CMOS, 21).cx,
                              IDTXP_REG_VCXO, 42).cx),
             board)

idtxp_probe(board, cx) ==
    ProbeAfterRead(
        idtxp_get_defaults([ZeroData EXCEPT !.max_freq = IDTXP_MAX_FREQ,
                                            !.min_freq = IDTXP_MIN_FREQ,
                                            !.act_freq = IDTXP_MIN_FREQ,
                                            !.fxtal = board.fxtal],
                           cx),
        board)

(***************************************************************************)
(* The state machine.                                                      *)
(***************************************************************************)
VARIABLES
    board,   \* the platform: the device tree node's factory-fout and
             \* clock-frequency, and whether its I2C bus can fail
    chip,    \* the device's registers 0x10-0x15 and 0x50-0x57
    phase,   \* "unbound", "bound", or "spinning" (a call that never returns)
    data,    \* struct clk_idtxp of the bound device
    call,    \* the last call: [op, rate, args, err, value, before], before
             \* being the structure as it was when the call was made
    trace    \* the register-port operations that call issued, in order

vars == <<board, chip, phase, data, call, trace>>

\* Platforms: every crystal without clock-frequency on a bus that works, one
\* with clock-frequency on a bus that works, and one on a bus that can fail.
Boards == [fxtal : Xtals, clock_frequency : {0}, faulty : {FALSE}]
          \cup [fxtal : {50000000}, clock_frequency : {100000000},
                faulty : BOOLEAN]

\* What the device's registers hold before the driver first touches them.
FactoryImage ==
    [a \in ChipRegs |->
        CASE a = 16 -> 44  [] a = 17 -> 70  [] a = 18 -> 138
          [] a = 19 -> 21  [] a = 20 -> 166 [] a = 21 -> 239
          [] a = 80 -> 0   [] a = 81 -> 64  [] a = 82 -> 0
          [] a = 83 -> 144 [] a = 84 -> 85  [] a = 85 -> 188
          [] a = 86 -> 26  [] a = 87 -> 128]

\* The bytes an uninitialised stack buffer may hold.
JunkBytes == {0, 255}

\* The faults of the register port in one handler call: none, or the
\* operation at one of the first n positions fails.  reads are the positions
\* of the reads into a buffer that is used even if the read failed; only
\* there does the junk byte matter.
NoFault == [fail |-> 0, junk |-> 0]
FaultsIn(n, reads) ==
    {NoFault} \cup
    UNION {{[fail |-> k, junk |-> j] :
               j \in IF k \in reads THEN JunkBytes ELSE {0}} : k \in 1..n}

\* idtxp_set_rate issues up to 9 port operations, the first a read whose
\* failure is not looked at.  In idtxp_probe the faults are at the first
\* positions, and operation 7 is such a read.
ProbeFaultPositions == 2
SetRateFaultPositions == 9
ProbeFaults(b) ==
    IF b.faulty THEN FaultsIn(ProbeFaultPositions, {7}) ELSE {NoFault}
SetRateFaults == FaultsIn(SetRateFaultPositions, {1})

\* The set_rate calls of the model: every rate on a bus that works, and
\* FaultRates with every fault on a bus that can fail.
FaultRates == {100000000, 100049999, 1000000000}
SetRateInputs(b) ==
    IF b.faulty THEN FaultRates \X SetRateFaults ELSE Rates \X {NoFault}

NoCall == [op |-> "none", rate |-> 0, args |-> <<>>, err |-> 0, value |-> 0,
           before |-> ZeroData]

Init ==
    /\ board \in Boards
    /\ chip = FactoryImage
    /\ phase = "unbound"
    /\ data = ZeroData
    /\ call = NoCall
    /\ trace = <<>>

Ctx(f) == [chip |-> chip, trace |-> <<>>, fail |-> f.fail, junk |-> f.junk]

\* The I2C core binds the device: idtxp_probe runs.  A probe that returns an
\* error leaves the device unbound and its structure freed.
Probe ==
    /\ phase = "unbound"
    /\ call.op = "none"
    /\ \E f \in ProbeFaults(board) :
          \E r \in {idtxp_probe(board, Ctx(f))} :
             /\ chip' = r.cx.chip
             /\ trace' = r.cx.trace
             /\ call' = [op |-> "probe", rate |-> board.clock_frequency,
                         args |-> <<>>, err |-> r.err, value |-> 0,
                         before |-> data]
             /\ phase' = IF r.spin THEN "spinning"
                         ELSE IF r.err = 0 THEN "bound" ELSE "unbound"
             /\ data' = IF r.spin \/ r.err = 0 THEN r.data ELSE ZeroData
             /\ UNCHANGED board

\* The clock framework calls the set_rate operation.
SetRate ==
    /\ phase = "bound"
    /\ \E in \in SetRateInputs(board) :
          \E r \in {idtxp_set_rate(data, Ctx(in[2]), in[1])} :
             /\ chip' = r.cx.chip
             /\ trace' = r.cx.trace
             /\ call' = [op |-> "set_rate", rate |-> in[1], args |-> <<>>,
                         err |-> r.err, value |-> 0, before |-> data]
             /\ phase' = IF r.spin THEN "spinning" ELSE "bound"
             /\ data' = r.data
             /\ UNCHANGED board

\* The clock framework calls the recalc_rate operation.
RecalcRate ==
    /\ phase = "bound"
    /\ call' = [op |-> "recalc_rate", rate |-> 0, args |-> <<>>, err |-> 0,
                value |-> idtxp_recalc_rate(data), before |-> data]
    /\ trace' = <<>>
    /\ UNCHANGED <<board, chip, phase, data>>

Next == Probe \/ SetRate \/ RecalcRate

Spec == Init /\ [][Next]_vars

(***************************************************************************)
(* The solver and the codec on their own: the structure is as a probe on a *)
(* bus that works leaves it, and one function is applied to one input.     *)
(***************************************************************************)
\* Crystals in the three bands of idtxp_calc_xo_settings, their ends
\* included.
CalcXtals == {40000000, 50000000, 80000000, 100000000, 137254902, 140000000,
              166000000}
CalcBoards == [fxtal : CalcXtals, clock_frequency : {0}, faulty : {FALSE}]

\* Requested frequencies: CalcSweepPoints + 1 values spread evenly over the
\* range, 1 GHz, and the frequencies next to which the first guess of the
\* output divider steps from 4 to 5 and from 5 to 6.
CalcSweepPoints == 12
CalcRates ==
    {IDTXP_MIN_FREQ
       + k * ((IDTXP_MAX_FREQ - IDTXP_MIN_FREQ) \div CalcSweepPoints) :
        k \in 0..CalcSweepPoints}
    \cup {1000000000, 1715000000, 1715000001, 1372000000, 1372000001}

\* Divider sets: the ends of each field's range and the values on either
\* side of a byte or bit-field boundary.
DividerSets ==
    [divo : {DIVO_MIN, 255, 256, DIVO_MAX},
     divnint : {DIVN_MIN, 127, 128, DIVN_MAX},
     divnfrac : {0, 255, 65536, Pow2(24) - 1}]

CalcInit ==
    /\ board \in CalcBoards
    /\ chip = FactoryImage
    /\ phase = "bound"
    /\ data = idtxp_probe(board, [chip |-> FactoryImage, trace |-> <<>>,
                                  fail |-> 0, junk |-> 0]).data
    /\ call = NoCall
    /\ trace = <<>>

\* idtxp_calc_divs for a requested frequency.
CalcDivs ==
    /\ call.op = "none"
    /\ \E req \in CalcRates :
          \E c \in {idtxp_calc_divs([data EXCEPT !.req_freq = req])} :
             /\ data' = c.data
             /\ phase' = IF c.spin THEN "spinning" ELSE "bound"
             /\ call' = [op |-> "calc_divs", rate |-> req, args |-> <<>>,
                         err |-> 0, value |-> 0, before |-> data]
             /\ UNCHANGED <<board, chip, trace>>

\* A divider set is written by idtxp_write_divs_settings and read back by
\* idtxp_get_divs_and_icp into a structure that devm_kzalloc has just
\* returned, as idtxp_probe does.
PackUnpack ==
    /\ call.op = "none"
    /\ \E s \in DividerSets :
          \E w \in {idtxp_write_divs_settings(
                        [data EXCEPT !.divo = s.divo, !.divnint = s.divnint,
                                     !.divnfrac = s.divnfrac],
                        Ctx(NoFault))} :
             \E g \in {idtxp_get_divs_and_icp(ZeroData, w.cx)} :
                /\ data' = g.data
                /\ chip' = g.cx.chip
                /\ trace' = g.cx.trace
                /\ call' = [op |-> "pack_unpack", rate |-> 0, args |-> <<>>,
                            err |-> g.err, value |-> 0, before |-> w.data]
                /\ UNCHANGED <<board, phase>>

\* The bytes a register may hold when set_to_reg is applied to it.
ExistingBytes == {0, 85, 170, 255}

\* The (value, mask) pairs the driver hands to set_to_reg: lines 588-597 with
\* the dividers of DividerSets, what update_divis_regs derives from them and
\* the charge-pump codes, and lines 633-649 with the values of the XO table.
PackPairs ==
    {<<v, MASK_FF>> : v \in {0, 255}}
    \cup {<<b, IDTXP_DIVO_8_MASK>> : b \in {0, 1}}
    \cup {<<U8(n), IDTXP_DIVN_INT_6_0_MASK>> :
             n \in {DIVN_MIN, 127, 128, DIVN_MAX}}
    \cup {<<b, IDTXP_ICP_OFFSET_EN_MASK>> : b \in {0, 1}}
    \cup {<<v, IDTXP_DIVN_INT_8_7_MASK>> : v \in {0, 2}}
    \cup {<<v, IDTXP_ICP_VALUE_MASK>> : v \in 2..5}
    \cup {<<b, IDTXP_PLL_MODE_MASK>> : b \in {0, 1}}
    \cup {<<b, IDTXP_DBLR_DIS_MASK>> : b \in {0, 1}}
    \cup {<<v, IDTXP_OT_GM_MASK>> : v \in {2, 3}}
    \cup {<<v, IDTXP_XO_CAP_MASK>> : v \in {21, 60}}
    \cup {<<v, IDTXP_XO_AMPSLICE_MASK>> : v \in {1, 12}}
    \cup {<<v, IDTXP_CAP_X2_MASK>> : v \in {2, 5}}
    \cup {<<b, IDTXP_OT_DIS_MASK>> : b \in {0, 1}}
    \cup {<<v, IDTXP_OT_RES_MASK>> : v \in {0, 3, 5}}

\* set_to_reg on one existing byte and one such pair.
SetToReg ==
    /\ call.op = "none"
    /\ \E reg \in ExistingBytes, p \in PackPairs :
          /\ call' = [op |-> "set_to_reg", rate |-> 0,
                      args |-> <<reg, p[1], p[2]>>, err |-> 0,
                      value |-> set_to_reg(reg, p[1], p[2]), before |-> data]
          /\ UNCHANGED <<board, chip, phase, data, trace>>

\* Requested frequency and output divider whose product, the VCO frequency,
\* is at, just below and just above 7.0, 7.4 and 7.8 GHz, at the ends of the
\* VCO range, and beyond it.
VcoInputs ==
    {<<1000000000, 7>>, <<999999999, 7>>, <<1000000001, 7>>,
     <<925000000, 8>>, <<924999999, 8>>, <<925000001, 8>>,
     <<975000000, 8>>, <<974999999, 8>>, <<975000001, 8>>,
     <<16000000, 429>>, <<1730000000, 5>>, <<2100000000, 5>>}

\* idtxp_calc_charge_pump on fvco = req_freq * divo, whatever charge-pump
\* code the structure held.
CalcChargePump ==
    /\ call.op = "none"
    /\ \E in \in VcoInputs, icp \in {0, 5} :
          /\ data' = idtxp_calc_charge_pump(
                         [data EXCEPT !.req_freq = in[1], !.divo = in[2],
                                      !.fvco = MulS(ToU64(in[1]), in[2]),
                                      !.icp_value = icp])
          /\ call' = [op |-> "calc_charge_pump", rate |-> in[1],
                      args |-> <<in[1], in[2], icp>>, err |-> 0, value |-> 0,
                      before |-> data]
          /\ UNCHANGED <<board, chip, phase, trace>>

CalcNext == CalcDivs \/ PackUnpack \/ SetToReg \/ CalcChargePump

CalcSpec == CalcInit /\ [][CalcNext]_vars

(***************************************************************************)
(* The claims.  What the specification's words mean is defined here without *)
(* the driver's arithmetic.                                                 *)
(***************************************************************************)
\* Some port operation of the last call failed.
PortFailed == \E i \in DOMAIN trace : ~trace[i].ok

\* The last call was set_rate with a rate inside [min_freq, max_freq].
SetRateInRange ==
    /\ call.op = "set_rate"
    /\ call.before.min_freq <= call.rate
    /\ call.rate <= call.before.max_freq

\* floor(|new_hz - actual_hz| * 10000 / actual_hz) < 5, for actual_hz > 0:
\* the product is below 5 * actual_hz exactly when the difference is at most
\* floor((actual_hz - 1) / 2000).
SmallBySpec(new_hz, actual_hz) ==
    (IF new_hz >= actual_hz THEN new_hz - actual_hz ELSE actual_hz - new_hz)
        <= (actual_hz - 1) \div 2000

\* The writes among the port operations of the last call, in order, each as
\* <<register, bytes>>.
IsWrite(e) == e.op # "bulk_read"
WritesIssued ==
    [i \in 1..Len(SelectSeq(trace, IsWrite)) |->
        <<SelectSeq(trace, IsWrite)[i].reg, SelectSeq(trace, IsWrite)[i].vals>>]

\* The writes of a frequency change committed with the trigger byte t, after
\* the batch write of the six divider bytes.
CommitWrites(t) ==
    <<<<IDTXP_REG_CONTROL, <<0>>>>, <<IDTXP_REG_CONTROL, <<32>>>>,
      <<IDTXP_REG_CONTROL, <<0>>>>, <<IDTXP_REG_CONTROL, <<1>>>>,
      <<IDTXP_REG_CONTROL, <<0>>>>,
      <<IDTXP_REG_FREQ_CHG, <<t>>>>, <<IDTXP_REG_FREQ_CHG, <<0>>>>>>

\* The trigger byte of the branch the specification gives the last set_rate.
TriggerBySpec ==
    IF SmallBySpec(call.rate, call.before.act_freq) THEN 2 ELSE 1

\* reference_hz lies in one of the three XO bands.
InBand(fxtal) ==
    \/ 40000000 <= fxtal /\ fxtal <= 80000000
    \/ 100000000 <= fxtal /\ fxtal <= 166000000

\* No output divider can help: every VCO frequency in [FVCO_MIN, FVCO_MAX],
\* divided by pfd, gives a feedback divider above DIVN_MAX, or every one gives
\* a feedback divider below DIVN_MIN.
NoDividerSolution(pfd) ==
    \/ Le64(MulS(ToU64(pfd), DIVN_MAX + 1), FVCO_MIN)
    \/ Lt64(FVCO_MAX, MulS(ToU64(pfd), DIVN_MIN))

\* Bit i of a byte.
BitOf(x, i) == (x \div Pow2(i)) % 2

\* The VCO frequency requested_hz * output_divider in whole MHz, rounded
\* down, in plain integers.
VcoMHz(hz, divider) ==
    (hz \div 1000000) * divider + ((hz % 1000000) * divider) \div 1000000

\* The charge-pump code the specification gives a VCO frequency: 5 below
\* 7.0 GHz, 4 from 7.0 GHz, 3 from 7.4 GHz, 2 from 7.8 GHz.
ChargePumpBySpec(mhz) ==
    IF mhz < 7000 THEN 5
    ELSE IF mhz < 7400 THEN 4
    ELSE IF mhz < 7800 THEN 3
    ELSE 2

\* C1: whenever a register-port operation failed during a set_rate call for
\* an in-range rate (the read of 0x10-0x15, the batch write, a write to 0x60
\* or a write to 0x62), the call returned an error and act_freq is what it
\* was before the call.
C1_PortFailureFailsSetRate ==
    (SetRateInRange /\ PortFailed)
        => (call.err # 0 /\ data.act_freq = call.before.act_freq)

\* C2: a set_rate call with a rate below min_freq or above max_freq returned
\* an error, left the whole structure (requested and actual frequency,
\* dividers, charge pump) as it was, and issued no port operation.
C2_OutOfRangeChangesNothing ==
    (call.op = "set_rate" /\ ~SetRateInRange)
        => (call.err # 0 /\ data = call.before /\ trace = <<>>
            /\ phase = "bound")

\* C2's case: a rate above max_freq has been refused.
C2_Witness ==
    /\ call.op = "set_rate"
    /\ call.rate > call.before.max_freq
    /\ call.err = EINVAL

\* C3: in a set_rate call for an in-range rate in which every port operation
\* succeeded, the writes were exactly: one batch write of six bytes at 0x10,
\* then 0x00, 0x20, 0x00, 0x01, 0x00 to 0x60, then 0x01 (Large) or 0x02
\* (Small) and 0x00 to 0x62.  On a crystal in one of the three bands the call
\* returns; on another crystal the statement is about the calls that return.
C3_WriteOrder ==
    (SetRateInRange /\ ~PortFailed /\ (InBand(board.fxtal) \/ phase = "bound"))
        => /\ phase = "bound"
           /\ Len(WritesIssued) = 8
           /\ WritesIssued[1][1] = IDTXP_REG_DIVO_7_0
           /\ Len(WritesIssued[1][2]) = NUM_FREQ_REGISTERS
           /\ SubSeq(WritesIssued, 2, 8) = CommitWrites(TriggerBySpec)

\* C3's case: a Small change to another rate has gone through on a port
\* without failure.
C3_Witness ==
    /\ SetRateInRange /\ ~PortFailed /\ call.err = 0
    /\ TriggerBySpec = 2
    /\ call.rate # call.before.act_freq

\* C4: a set_rate call that got as far as the trigger wrote 0x02 (Small)
\* exactly when floor(|new_hz - actual_hz| * 10000 / actual_hz) < 5, with the
\* true absolute difference, and 0x01 (Large) otherwise.
C4_SmallOrLarge ==
    (SetRateInRange /\ Len(trace) >= 8)
        => trace[8].vals = <<TriggerBySpec>>

\* C4's case: a Small change to a rate below the actual frequency.
C4_Witness ==
    /\ SetRateInRange /\ Len(trace) >= 8
    /\ call.rate < call.before.act_freq
    /\ trace[8].vals = <<2>>

\* C5: recalc_rate returns act_freq, the last frequency successfully applied.
C5_GetRateReturnsActual ==
    call.op = "recalc_rate" => call.value = data.act_freq

\* C6: a divider set with divo in [4, 511], divnint in [41, 216] and divnfrac
\* in [0, 2^24), written by idtxp_write_divs_settings and read back by
\* idtxp_get_divs_and_icp, comes back with the same divo, divnint and
\* divnfrac.
C6_PackUnpackRoundTrip ==
    (call.op = "pack_unpack" /\ call.err = 0)
        => /\ data.divo = call.before.divo
           /\ data.divnint = call.before.divnint
           /\ data.divnfrac = call.before.divnfrac

\* C7: for a requested frequency in [16 MHz, 2.1 GHz] and a crystal in one
\* of the three bands, idtxp_calc_divs returns and leaves 4 <= divo <= 511,
\* 41 <= divnint <= 216, FVCO_MIN <= fvco <= FVCO_MAX and fvco = req_freq *
\* divo.
C7_SolverInvariants ==
    call.op = "calc_divs"
        => /\ phase = "bound"
           /\ DIVO_MIN <= data.divo /\ data.divo <= DIVO_MAX
           /\ DIVN_MIN <= data.divnint /\ data.divnint <= DIVN_MAX
           /\ Le64(FVCO_MIN, data.fvco) /\ Le64(data.fvco, FVCO_MAX)
           /\ data.fvco = MulS(ToU64(data.req_freq), data.divo)

\* C7's case: the fractional path ran and its round-up added 1 to divnint
\* (the fraction is a half or more).
C7_Witness ==
    /\ call.op = "calc_divs"
    /\ InBand(board.fxtal)
    /\ data.divnfrac >= Pow2(23)

\* C8: a set_rate call for an in-range rate on a PFD frequency for which no
\* output divider gives a feedback divider in [41, 216] returned an error and
\* wrote no register.
C8_NoSolutionIsAnError ==
    (SetRateInRange /\ NoDividerSolution(PfdOf(call.before)))
        => /\ phase = "bound"
           /\ call.err # 0
           /\ WritesIssued = <<>>

\* C9: on a crystal outside the three bands idtxp_probe returned an error,
\* wrote no XO settings to 0x50-0x57, and left no device to call set_rate on.
C9_OutOfBandFailsProbe ==
    (call.op = "probe" /\ ~InBand(board.fxtal))
        => /\ call.err # 0
           /\ phase = "unbound"
           /\ \A i \in DOMAIN trace :
                 ~(trace[i].op = "multi_write"
                   /\ trace[i].reg = IDTXP_REG_HSPI2C_CMOS)

\* C10: after idtxp_calc_divs on an in-band crystal, divnfrac is in
\* [0, 2^24).
C10_FracFitsField ==
    call.op = "calc_divs" => (0 <= data.divnfrac /\ data.divnfrac < Pow2(24))

\* C11: set_to_reg leaves every bit outside its mask as it was in the
\* existing byte, for every pair of value and mask the driver passes, the low
\* byte of divnint with mask 0x7F included.
C11_PackKeepsOtherBits ==
    call.op = "set_to_reg"
        => \A i \in 0..7 :
              BitOf(call.args[3], i) = 0
                  => BitOf(call.value, i) = BitOf(call.args[1], i)

\* C12: once the device is bound, whatever set_rate calls followed (accepted,
\* refused, failed, or never returning), min_freq <= act_freq <= max_freq.
C12_ActualInRange ==
    phase # "unbound"
        => data.min_freq <= data.act_freq /\ data.act_freq <= data.max_freq

\* C12's case: set_rate has been refused a rate one above max_freq while the
\* actual frequency, from an accepted call before, is max_freq itself.
C12_Witness ==
    /\ call.op = "set_rate"
    /\ call.rate = call.before.max_freq + 1
    /\ call.err # 0
    /\ data.act_freq = data.max_freq

\* C13: after a set_rate call that returned 0, req_freq and act_freq are both
\* the rate asked for, whichever of the two changes ran.
C13_SuccessSetsBoth ==
    (call.op = "set_rate" /\ call.err = 0 /\ phase = "bound")
        => data.req_freq = call.rate /\ data.act_freq = call.rate

\* C13's case: a Large change that returned 0 has moved the actual frequency.
C13_Witness ==
    /\ call.op = "set_rate" /\ call.err = 0 /\ phase = "bound"
    /\ Len(trace) >= 8 /\ trace[8].vals = <<1>>
    /\ data.act_freq # call.before.act_freq

\* A set_rate call for an in-range rate has returned 0 with no port operation
\* failing, and the specification gives it the Small branch.
SmallChangeDone ==
    /\ SetRateInRange /\ call.err = 0 /\ phase = "bound"
    /\ ~PortFailed
    /\ TriggerBySpec = 2

\* C14: when a Small set_rate call that succeeded on a port without failure
\* is followed at once by another such call for the same rate, the second
\* call issues the writes of the first: same registers, same bytes, same order.
C14_SameRateSameWrites ==
    [][(SmallChangeDone /\ SmallChangeDone' /\ call'.rate = call.rate)
          => WritesIssued' = WritesIssued]_vars

\* C14's case: a Small call for the rate that the call before it had already
\* made both the requested and the actual frequency (a rate that only a
\* set_rate call can have set) has gone through and written the registers.
C14_Witness ==
    /\ SmallChangeDone
    /\ call.rate = call.before.req_freq
    /\ call.rate = call.before.act_freq
    /\ call.rate # board.clock_frequency
    /\ call.rate # IDTXP_MIN_FREQ
    /\ Len(WritesIssued) = 8

\* C15: idtxp_calc_charge_pump sets icp_value from the VCO frequency alone: 5
\* below 7.0 GHz, 4 from 7.0 GHz up to but not including 7.4 GHz, 3 from
\* 7.4 GHz up to but not including 7.8 GHz, 2 from 7.8 GHz; so it is in 2..5.
C15_ChargePumpRanges ==
    call.op = "calc_charge_pump"
        => /\ data.icp_value
                 = ChargePumpBySpec(VcoMHz(call.args[1], call.args[2]))
           /\ data.icp_value \in 2..5

\* C15's case: a VCO frequency of exactly 7.0 GHz, in a structure that held
\* the code 5, has been given the code 4.
C15_Witness ==
    /\ call.op = "calc_charge_pump"
    /\ call.args = <<1000000000, 7, 5>>
    /\ data.icp_value = 4

\* The specification's initial guess 1 + floor(FVCO_MIN / requested_hz): the
\* divider k with (k - 1) * requested_hz <= FVCO_MIN < k * requested_hz.
GuessBySpec(hz) ==
    CHOOSE k \in 1..DIVO_MAX :
        /\ Le64(MulS(ToU64(hz), k - 1), FVCO_MIN)
        /\ Lt64(FVCO_MIN, MulS(ToU64(hz), k))

\* The output divider k gives an exact integer solution: a VCO frequency of
\* at most FVCO_MAX that pfd_hz divides, with a quotient in [41, 216].
ExactQuotient(qr) ==
    qr.r = 0 /\ Le64(ToU64(DIVN_MIN), qr.q) /\ Le64(qr.q, ToU64(DIVN_MAX))

ExactAt(hz, pfd, k) ==
    /\ Le64(MulS(ToU64(hz), k), FVCO_MAX)
    /\ ExactQuotient(DivMod64(MulS(ToU64(hz), k), pfd))

\* The integer-mode search from the guess g finds an exact solution: some
\* divider from g to DIVO_MAX - 1 gives one, and the search gets there (the
\* VCO frequency and the quotient grow with the divider, so it does unless
\* the quotient at g is below DIVN_MIN).
SearchFindsExact(hz, pfd, g) ==
    /\ Le64(MulS(ToU64(pfd), DIVN_MIN), MulS(ToU64(hz), g))
    /\ \E k \in g..(DIVO_MAX - 1) : ExactAt(hz, pfd, k)

\* Fractional mode as the specification gives it for a VCO frequency whose
\* division by pfd_hz is qr: feedback_frac = (rem << 24) / pfd_hz, one more
\* when (rem' * 10) / pfd_hz >= 5 for the remainder rem' of that division;
\* feedback_int one more when (feedback_frac * 10) >> 24 >= 5.
FracBitsBySpec(fr, pfd) ==
    LowU32(fr.q)
      + (IF Le64(ToU64(5), DivMod64(MulS(ToU64(fr.r), 10), pfd).q)
         THEN 1 ELSE 0)

FeedbackWith(qr, f) ==
    [int |-> LowU16(qr.q) + (IF (f * 10) \div Pow2(24) >= 5 THEN 1 ELSE 0),
     frac |-> f]

FeedbackOf(qr, pfd) ==
    FeedbackWith(qr, FracBitsBySpec(DivMod64(Shl24(ToU64(qr.r)), pfd), pfd))

FeedbackBySpec(hz, pfd, g) ==
    FeedbackOf(DivMod64(MulS(ToU64(hz), g), pfd), pfd)

\* The structure holds the divider set of fractional mode at the guess g, and
\* the charge-pump code of that VCO frequency.
HoldsFractionalAt(d, hz, pfd, g) ==
    /\ d.divo = g
    /\ d.fvco = MulS(ToU64(hz), g)
    /\ d.divnint = FeedbackBySpec(hz, pfd, g).int
    /\ d.divnfrac = FeedbackBySpec(hz, pfd, g).frac
    /\ d.icp_value = ChargePumpBySpec(VcoMHz(hz, g))

\* A set_rate call for an in-range rate has returned 0 with no port operation
\* failing, after a search that ended without an exact solution.
SearchEndedInexact ==
    /\ SetRateInRange /\ call.err = 0 /\ phase = "bound"
    /\ ~PortFailed
    /\ ~SearchFindsExact(call.rate, PfdOf(call.before), GuessBySpec(call.rate))

\* C16: when the integer-mode search ended without an exact solution, the
\* structure holds divo = 1 + floor(FVCO_MIN / req_freq), fvco = req_freq *
\* divo, divnint and divnfrac as fractional mode computes them from that
\* fvco, and the charge-pump code of that fvco: nothing of a divider the
\* search went on to.
C16_FractionalAtInitialGuess ==
    SearchEndedInexact
        => HoldsFractionalAt(data, call.rate, PfdOf(call.before),
                             GuessBySpec(call.rate))

\* C16's case: the search went past its first divider (the VCO frequency at
\* the next one is still within FVCO_MAX, and the first quotient was within
\* DIVN_MAX) and ended without an exact solution.
C16_Witness ==
    /\ SearchEndedInexact
    /\ Le64(MulS(ToU64(call.rate), GuessBySpec(call.rate) + 1), FVCO_MAX)
    /\ Le64(MulS(ToU64(call.rate), GuessBySpec(call.rate)),
            MulS(ToU64(PfdOf(call.before)), DIVN_MAX))
    /\ data.divnfrac > 0

\* C17: for a requested frequency in [16 MHz, 2.1 GHz] on a crystal in one of
\* the three bands, with the doubler as the XO table sets it, idtxp_calc_divs
\* returns: 41 * pfd is at most FVCO_MIN, every VCO frequency of the loop is
\* above FVCO_MIN, so divnint is never below DIVN_MIN in the loop and the
\* pass that is repeated without divo++ never happens.
C17_SearchTerminates ==
    (call.op = "calc_divs" /\ InBand(board.fxtal))
        => /\ phase # "spinning"
           /\ Le64(MulS(ToU64(PfdOf(call.before)), DIVN_MIN), FVCO_MIN)
           /\ Lt64(FVCO_MIN,
                   MulS(ToU64(call.rate), GuessBySpec(call.rate)))

\* C17's case: the loop has run on the highest PFD frequency, 166 MHz, from
\* a first VCO frequency whose quotient is DIVN_MIN itself, and has returned.
C17_Witness ==
    /\ call.op = "calc_divs"
    /\ phase = "bound"
    /\ PfdOf(call.before) = 166000000
    /\ Lt64(MulS(ToU64(call.rate), GuessBySpec(call.rate)),
            MulS(ToU64(PfdOf(call.before)), DIVN_MIN + 1))

=============================================================================
